---- MODULE Spec2Model ----
(***************************************************************************)
(* Verification model of the ShortCord summarizer bot:                     *)
(*   - the sliding-window RateLimiter and AIService.generate_summary,      *)
(*   - the PrivacyManager opt-out registry and the Config settings store,  *)
(*   - the MessageProcessor content assembler and the summarize command.   *)
(***************************************************************************)
EXTENDS Integers, Sequences, FiniteSets, TLC

VARIABLES
    now,                  \* time.time(), in whole seconds
    requests_per_minute,  \* RateLimiter.requests_per_minute : deque of timestamps
    tokens_per_minute,    \* RateLimiter.tokens_per_minute   : deque of {time, tokens}
    requests_per_day,     \* RateLimiter.requests_per_day    : deque of timestamps
    gpc,                  \* per invocation: position inside generate_summary
    gest,                 \* per invocation: estimated_tokens of the admitted call
    greturn,              \* the latest return of generate_summary: [proc, result]
    reqlog,               \* history: every record_request made, [time, est, tokens, stale]
    gstale,               \* history: another invocation checked or recorded since this one's check
    gcheck,               \* history: the latest can_make_request call, [est, ok]
    nreq,                 \* number of generate_summary invocations started
    nticks,               \* number of clock advances
    opted_out_users,      \* PrivacyManager.opted_out_users : set of hashed ids
    config,               \* Config.config of each Config instance of the process
    config_file,          \* the settings document config.json
    lastop,               \* history: the latest registry or config command and its answer
    channel,              \* the channel's messages, oldest first, the command message last
    spc,                  \* position inside SummarizeCog.summarize
    scount,               \* summarize: the count argument
    messages,             \* summarize: the window handed to the assembler
    midx,                 \* format_messages_for_ai_interlaced: index of the message in hand
    aidx,                 \* index of the attachment in hand (0: at the top of the loop body)
    content_parts,        \* the content list built so far
    prev_time,            \* created_at of the previous included message
    downloads,            \* history: window indices whose attachments were requested over HTTP
    outbound,             \* history: the content list of the outbound call, [issued, content, opted]
    sreply,               \* what summarize sent to the channel
    sent,                 \* the ctx.send calls of summarize: [kind, len] each
    split_text,           \* smart_split_message: the text argument
    split_max,            \* smart_split_message: the max_length argument
    split_chunks,         \* smart_split_message: the returned list (<<>> before the call)
    dattachment,          \* download_attachment: the attachment argument
    dpc,                  \* position inside MediaHandler.download_attachment
    dresponse,            \* history: how the HTTP request ended ("none" before it ends)
    dresult               \* download_attachment: the returned value (None: null)

privVars == <<opted_out_users, config, config_file, lastop>>

vars == <<now, requests_per_minute, tokens_per_minute, requests_per_day,
          gpc, gest, greturn, reqlog, gstale, gcheck, nreq, nticks,
          opted_out_users, config, config_file, lastop,
          channel, spc, scount, messages, midx, aidx, content_parts, prev_time,
          downloads, outbound, sreply, sent,
          split_text, split_max, split_chunks,
          dattachment, dpc, dresponse, dresult>>

dlVars == <<dattachment, dpc, dresponse, dresult>>

chunkVars == <<split_text, split_max, split_chunks>>

asmVars == <<channel, spc, scount, messages, midx, aidx, content_parts, prev_time,
             downloads, outbound, sreply, sent>>

rateVars == <<now, requests_per_minute, tokens_per_minute, requests_per_day,
              gpc, gest, greturn, reqlog, gstale, gcheck, nreq, nticks>>

----------------------------------------------------------------------------
(* Bounds of the model *)

MaxRequests == 3
MaxTicks == 2

(* Concurrent command invocations sharing the one AIService *)
Procs == {"i1", "i2"}

(* Results of count_tokens (or of the fallback estimate) and of
   usage_metadata.candidates_token_count (None is recorded as 0) *)
EstimateChoices == {1000, 240000, 1000001}
ResponseChoices == {0, 20000}

(* Clock advances: one second, one minute, one day *)
TickChoices == {1, 60, 86400}

(* Clock advances while several invocations are in flight *)
TickChoicesConcurrent == {61}

----------------------------------------------------------------------------
(* Program constants of RateLimiter and AIService *)

MinuteMaxLen == 15
TokenMaxLen == 250000
DayMaxLen == 1000
MinuteHorizon == 60
DayHorizon == 86400
MinuteRequestLimit == 14
TokenLimit == 240000
DayRequestLimit == 950
ContextLimit == 1000000

(* The provider's quotas the limiter is written against *)
MinuteRequestCap == 15
MinuteTokenCap == 250000
DayRequestCap == 1000

----------------------------------------------------------------------------
(* collections.deque(maxlen=n).append: a full deque drops its oldest entry *)
DequeAppend(q, x, maxlen) ==
    IF Len(q) >= maxlen THEN Append(Tail(q), x) ELSE Append(q, x)

(* mutant: one popleft only, an "if" in the place of the "while" *)
PopOldTimes_Once(q, cutoff) ==
    IF q # <<>> /\ q[1] < cutoff THEN Tail(q) ELSE q

(* while q and q[0] < cutoff: q.popleft()  -- stops at the first entry that
   is not older than the cutoff *)
PopOldTimes(q, cutoff) ==
    LET keep == {i \in 1..Len(q) : ~(q[i] < cutoff)}
        first == IF keep = {} THEN Len(q) + 1
                 ELSE CHOOSE i \in keep : \A j \in keep : i <= j
    IN SubSeq(q, first, Len(q))

(* mutant: the boundary entry, exactly one horizon old, is popped too *)
PopOldTokens_Inclusive(q, cutoff) ==
    LET keep == {i \in 1..Len(q) : ~(q[i].time <= cutoff)}
        first == IF keep = {} THEN Len(q) + 1
                 ELSE CHOOSE i \in keep : \A j \in keep : i <= j
    IN SubSeq(q, first, Len(q))

(* while q and q[0]['time'] < cutoff: q.popleft() *)
PopOldTokens(q, cutoff) ==
    LET keep == {i \in 1..Len(q) : ~(q[i].time < cutoff)}
        first == IF keep = {} THEN Len(q) + 1
                 ELSE CHOOSE i \in keep : \A j \in keep : i <= j
    IN SubSeq(q, first, Len(q))

(* sum(entry['tokens'] for entry in q) *)
RECURSIVE SumTokens(_)
SumTokens(q) == IF q = <<>> THEN 0 ELSE Head(q).tokens + SumTokens(Tail(q))

(* mutant: the three tests joined by "and" instead of "or" *)
UnderLimits_AllExceeded(rpm, tpm, rpd, estimated_tokens) ==
    ~ /\ Len(rpm) >= MinuteRequestLimit
      /\ SumTokens(tpm) + estimated_tokens > TokenLimit
      /\ Len(rpd) >= DayRequestLimit

(* the admission test of can_make_request on the pruned deques *)
UnderLimits(rpm, tpm, rpd, estimated_tokens) ==
    ~ \/ Len(rpm) >= MinuteRequestLimit
      \/ SumTokens(tpm) + estimated_tokens > TokenLimit
      \/ Len(rpd) >= DayRequestLimit

(* RateLimiter.can_make_request: prunes the three deques, then tests *)
can_make_request(rpm, tpm, rpd, t, estimated_tokens) ==
    LET minute_ago == t - MinuteHorizon
        day_ago == t - DayHorizon
        rpm2 == PopOldTimes(rpm, minute_ago)
        tpm2 == PopOldTokens(tpm, minute_ago)
        rpd2 == PopOldTimes(rpd, day_ago)
    IN [ok |-> UnderLimits(rpm2, tpm2, rpd2, estimated_tokens),
        rpm |-> rpm2, tpm |-> tpm2, rpd |-> rpd2]

(* RateLimiter.record_request *)
record_request(rpm, tpm, rpd, t, tokens_used) ==
    [rpm |-> DequeAppend(rpm, t, MinuteMaxLen),
     tpm |-> DequeAppend(tpm, [time |-> t, tokens |-> tokens_used], TokenMaxLen),
     rpd |-> DequeAppend(rpd, t, DayMaxLen)]

----------------------------------------------------------------------------
(* Initial states of the limiter: fresh after construction, or after a run
   of admitted requests, WarmBatch at a time every WarmPeriod seconds *)
WarmStarts == {0, 13, 949}
WarmBatch == MinuteRequestLimit - 1
WarmPeriod == MinuteHorizon + 1
WarmTokens == 1000

WarmTime(i) == WarmPeriod * ((i - 1) \div WarmBatch)

WarmDay(k) == [i \in 1..k |-> WarmTime(i)]

WarmLast(k) == {i \in 1..k : WarmTime(i) = WarmTime(k)}

InitRateFrom(starts) ==
    \E k \in starts :
        /\ now = (IF k = 0 THEN 0 ELSE WarmTime(k))
        /\ requests_per_day = WarmDay(k)
        /\ requests_per_minute = [i \in 1..Cardinality(WarmLast(k)) |-> WarmTime(k)]
        /\ tokens_per_minute = [i \in 1..Cardinality(WarmLast(k)) |->
                                   [time |-> WarmTime(k), tokens |-> WarmTokens]]
        /\ reqlog = [i \in 1..k |-> [time |-> WarmTime(i), est |-> WarmTokens,
                                     tokens |-> WarmTokens, stale |-> FALSE]]
        /\ gpc = [p \in Procs |-> "idle"]
        /\ gest = [p \in Procs |-> 0]
        /\ greturn = [proc |-> "none", result |-> "none"]
        /\ gstale = [p \in Procs |-> FALSE]
        /\ gcheck = [est |-> 0, ok |-> FALSE]
        /\ nreq = 0
        /\ nticks = 0

----------------------------------------------------------------------------
(* AIService.generate_summary, split at its suspension points *)

(* entry: an empty content list returns at once; otherwise the token
   estimate is awaited *)
generate_summary_enter(p, empty) ==
    /\ gpc[p] = "idle"
    /\ nreq < MaxRequests
    /\ nreq' = nreq + 1
    /\ IF empty
       THEN /\ greturn' = [proc |-> p, result |-> "no_content"]
            /\ UNCHANGED gpc
       ELSE /\ gpc' = [gpc EXCEPT ![p] = "estimating"]
            /\ UNCHANGED greturn
    /\ UNCHANGED <<now, requests_per_minute, tokens_per_minute, requests_per_day,
                   gest, gstale, gcheck, reqlog, nticks>>

(* mutant: a denied admission is retried later instead of answered *)
generate_summary_estimated_Retries(p, estimated_tokens) ==
    /\ gpc[p] = "estimating"
    /\ IF estimated_tokens > ContextLimit
       THEN /\ gpc' = [gpc EXCEPT ![p] = "idle"]
            /\ greturn' = [proc |-> p, result |-> "too_long"]
            /\ UNCHANGED <<requests_per_minute, tokens_per_minute, requests_per_day,
                           gest, gstale, gcheck>>
       ELSE LET c == can_make_request(requests_per_minute, tokens_per_minute,
                                      requests_per_day, now, estimated_tokens)
            IN /\ requests_per_minute' = c.rpm
               /\ tokens_per_minute' = c.tpm
               /\ requests_per_day' = c.rpd
               /\ gstale' = [q \in Procs |-> q # p /\ gpc[q] = "calling"]
               /\ gcheck' = [est |-> estimated_tokens, ok |-> c.ok]
               /\ UNCHANGED greturn
               /\ IF c.ok
                  THEN /\ gpc' = [gpc EXCEPT ![p] = "calling"]
                       /\ gest' = [gest EXCEPT ![p] = estimated_tokens]
                  ELSE UNCHANGED <<gpc, gest>>
    /\ UNCHANGED <<now, reqlog, nreq, nticks>>

(* the estimate arrives: context-size test, then can_make_request, then the
   outbound call is started; no suspension point in between *)
generate_summary_estimated(p, estimated_tokens) ==
    /\ gpc[p] = "estimating"
    /\ IF estimated_tokens > ContextLimit
       THEN /\ gpc' = [gpc EXCEPT ![p] = "idle"]
            /\ greturn' = [proc |-> p, result |-> "too_long"]
            /\ UNCHANGED <<requests_per_minute, tokens_per_minute, requests_per_day,
                           gest, gstale, gcheck>>
       ELSE LET c == can_make_request(requests_per_minute, tokens_per_minute,
                                      requests_per_day, now, estimated_tokens)
            IN /\ requests_per_minute' = c.rpm
               /\ tokens_per_minute' = c.tpm
               /\ requests_per_day' = c.rpd
               /\ gstale' = [q \in Procs |-> q # p /\ gpc[q] = "calling"]
               /\ gcheck' = [est |-> estimated_tokens, ok |-> c.ok]
               /\ IF c.ok
                  THEN /\ gpc' = [gpc EXCEPT ![p] = "calling"]
                       /\ gest' = [gest EXCEPT ![p] = estimated_tokens]
                       /\ UNCHANGED greturn
                  ELSE /\ gpc' = [gpc EXCEPT ![p] = "idle"]
                       /\ greturn' = [proc |-> p, result |-> "rate_limited"]
                       /\ UNCHANGED gest
    /\ UNCHANGED <<now, reqlog, nreq, nticks>>

(* the outbound call returns: record_request(estimated + response tokens) *)
generate_summary_returned(p, response_tokens) ==
    /\ gpc[p] = "calling"
    /\ LET r == record_request(requests_per_minute, tokens_per_minute,
                               requests_per_day, now, gest[p] + response_tokens)
       IN /\ requests_per_minute' = r.rpm
          /\ tokens_per_minute' = r.tpm
          /\ requests_per_day' = r.rpd
    /\ reqlog' = Append(reqlog, [time |-> now, est |-> gest[p],
                                 tokens |-> gest[p] + response_tokens,
                                 stale |-> gstale[p]])
    /\ gstale' = [q \in Procs |-> q # p /\ gpc[q] = "calling"]
    /\ gpc' = [gpc EXCEPT ![p] = "idle"]
    /\ gest' = [gest EXCEPT ![p] = 0]
    /\ greturn' = [proc |-> p, result |-> "ok"]
    /\ UNCHANGED <<now, gcheck, nreq, nticks>>

(* mutant: the request is recorded in the except branch as well *)
generate_summary_raised_Records(p) ==
    /\ gpc[p] = "calling"
    /\ LET r == record_request(requests_per_minute, tokens_per_minute,
                               requests_per_day, now, gest[p])
       IN /\ requests_per_minute' = r.rpm
          /\ tokens_per_minute' = r.tpm
          /\ requests_per_day' = r.rpd
    /\ gpc' = [gpc EXCEPT ![p] = "idle"]
    /\ gest' = [gest EXCEPT ![p] = 0]
    /\ gstale' = [gstale EXCEPT ![p] = FALSE]
    /\ greturn' = [proc |-> p, result |-> "error"]
    /\ UNCHANGED <<now, reqlog, gcheck, nreq, nticks>>

(* the outbound call (or reading its response) raises: nothing is recorded *)
generate_summary_raised(p) ==
    /\ gpc[p] = "calling"
    /\ gpc' = [gpc EXCEPT ![p] = "idle"]
    /\ gest' = [gest EXCEPT ![p] = 0]
    /\ gstale' = [gstale EXCEPT ![p] = FALSE]
    /\ greturn' = [proc |-> p, result |-> "error"]
    /\ UNCHANGED <<now, requests_per_minute, tokens_per_minute, requests_per_day,
                   reqlog, gcheck, nreq, nticks>>

(* the clock advances; the history forgets records older than a day *)
clock_advance(d) ==
    /\ nticks < MaxTicks
    /\ nticks' = nticks + 1
    /\ now' = now + d
    /\ reqlog' = SelectSeq(reqlog, LAMBDA e : e.time >= now + d - DayHorizon)
    /\ UNCHANGED <<requests_per_minute, tokens_per_minute, requests_per_day,
                   gpc, gest, greturn, gstale, gcheck, nreq>>

(* RateLimiter called directly, in any order: can_make_request(estimate) *)
limiter_check(estimated_tokens) ==
    /\ LET c == can_make_request(requests_per_minute, tokens_per_minute,
                                 requests_per_day, now, estimated_tokens)
       IN /\ requests_per_minute' = c.rpm
          /\ tokens_per_minute' = c.tpm
          /\ requests_per_day' = c.rpd
          /\ gcheck' = [est |-> estimated_tokens, ok |-> c.ok]
    /\ UNCHANGED <<now, reqlog, gpc, gest, greturn, gstale, nreq, nticks>>

(* RateLimiter called directly: record_request(tokens_used), whether or not
   a check admitted it; at most MaxOverflow records beyond the deque length *)
MaxOverflow == 2

limiter_record(tokens_used) ==
    /\ Len(reqlog) < MinuteMaxLen + MaxOverflow
    /\ LET r == record_request(requests_per_minute, tokens_per_minute,
                               requests_per_day, now, tokens_used)
       IN /\ requests_per_minute' = r.rpm
          /\ tokens_per_minute' = r.tpm
          /\ requests_per_day' = r.rpd
    /\ reqlog' = Append(reqlog, [time |-> now, est |-> tokens_used,
                                 tokens |-> tokens_used, stale |-> FALSE])
    /\ UNCHANGED <<now, gcheck, gpc, gest, greturn, gstale, nreq, nticks>>

(* estimates at and around the token limit and at the context ceiling *)
LimiterEstimates == {1000, TokenLimit, TokenLimit + 1, ContextLimit}

LimiterCheck ==
    /\ \E e \in LimiterEstimates : limiter_check(e)
    /\ UNCHANGED <<privVars, asmVars, chunkVars, dlVars>>

LimiterRecord ==
    /\ limiter_record(WarmTokens)
    /\ UNCHANGED <<privVars, asmVars, chunkVars, dlVars>>

(* generate_summary called on its own, with some content list *)
GenStart(p) ==
    /\ \E empty \in BOOLEAN : generate_summary_enter(p, empty)
    /\ UNCHANGED <<privVars, asmVars, chunkVars, dlVars>>

GenEstimated(p) ==
    /\ \E e \in EstimateChoices : generate_summary_estimated(p, e)
    /\ UNCHANGED <<privVars, asmVars, chunkVars, dlVars>>

GenCallOk(p) ==
    /\ \E r \in ResponseChoices : generate_summary_returned(p, r)
    /\ UNCHANGED <<privVars, asmVars, chunkVars, dlVars>>

GenCallFail(p) ==
    /\ generate_summary_raised(p)
    /\ UNCHANGED <<privVars, asmVars, chunkVars, dlVars>>

Tick ==
    /\ \E d \in TickChoices : clock_advance(d)
    /\ UNCHANGED <<privVars, asmVars, chunkVars, dlVars>>

TickConcurrent ==
    /\ \E d \in TickChoicesConcurrent : clock_advance(d)
    /\ UNCHANGED <<privVars, asmVars, chunkVars, dlVars>>

----------------------------------------------------------------------------
(* PrivacyManager and Config *)

Users == {"u1", "u2"}
Salt == "salt"

(* values of the settings document: JSON integers, JSON strings, and
   Python's None for an absent key or argument *)
JInt(n) == [t |-> "int", n |-> n, s |-> ""]
JStr(x) == [t |-> "str", n |-> 0, s |-> x]
None == [t |-> "none", n |-> 0, s |-> ""]

(* PrivacyManager._hash_user_id: sha256 of the id followed by the salt; a
   one-way function of the pair, distinct ids giving distinct tokens *)
hash_user_id(user_id) == <<"sha256", user_id, Salt>>

Tokens == {hash_user_id(u) : u \in Users}

(* the Config objects of the process: SummarizerBot.config,
   PrivacyManager.config, MessageProcessor.config, AIService.config *)
ConfigInstances == {"bot", "privacy", "processor", "ai"}

ConfigKeys == {"system_prompt", "max_messages_default", "max_messages_limit",
               "time_gap_threshold_minutes", "opted_out_users"}

(* Config.default_config; the opted_out_users list is held as the set of its
   elements *)
default_config ==
    [system_prompt |-> JStr("default prompt"),
     max_messages_default |-> JInt(50),
     max_messages_limit |-> JInt(200),
     time_gap_threshold_minutes |-> JInt(30),
     opted_out_users |-> {}]

(* keys and values an administrator passes to the config command *)
AdminKeys == {JStr("system_prompt"), JStr("max_messages_limit"),
              JStr("time_gap_threshold_minutes"), JStr("opted_out_users"),
              JStr("no_such_key")}
AdminValues == {JInt(5), JStr("custom")}

(* Config.get: dict.get, None for a missing key *)
ConfigGet(dict, key) == IF key \in DOMAIN dict THEN dict[key] ELSE None

(* Config.save_config: the whole dict replaces the document; a failed write
   is logged and swallowed, the document staying as it was *)
save_config(file, dict, write_ok) == IF write_ok THEN dict ELSE file

(* Config.set on one instance: returns the instance's dict and the document *)
ConfigSet(dict, file, key, value, write_ok) ==
    LET d2 == [k \in DOMAIN dict \cup {key} |-> IF k = key THEN value ELSE dict[k]]
    IN [dict |-> d2, file |-> save_config(file, d2, write_ok)]

(* validation_utils.validate_config_key *)
validate_config_key(key) == key # "opted_out_users"

(* State after SummarizerBot.__init__: every Config instance has loaded the
   same document (defaults merged in), the registry has loaded its tokens *)
InitPrivFrom(stored) ==
    \E s0 \in stored :
        /\ config_file = [default_config EXCEPT !.opted_out_users = s0]
        /\ config = [c \in ConfigInstances |-> config_file]
        /\ opted_out_users = s0
        /\ lastop = [op |-> "none", arg |-> "", ret |-> "", before |-> {}]

(* mutant: nobody is ever reported as opted out *)
is_user_opted_out_Never(set, user_id) == FALSE

(* PrivacyManager.is_user_opted_out *)
is_user_opted_out(set, user_id) == hash_user_id(user_id) \in set

(* PrivacyManager._save_opted_out_users: config.set('opted_out_users', list(set)) *)
save_opted_out_users(set, write_ok) ==
    ConfigSet(config["privacy"], config_file, "opted_out_users", set, write_ok)

(* mutant: the membership test is skipped, every opt-out reports success *)
OptOutReturns_Always(set, user_id) == TRUE

(* what opt_out_user returns *)
OptOutReturns(set, user_id) == ~(hash_user_id(user_id) \in set)

(* str() of a Python bool *)
BoolStr(b) == IF b THEN "True" ELSE "False"

(* PrivacyManager.opt_out_user, as called by the optout command *)
opt_out_user(u, write_ok) ==
    /\ lastop' = [op |-> "opt_out", arg |-> u, ret |-> BoolStr(OptOutReturns(opted_out_users, u)),
                  before |-> opted_out_users]
    /\ IF ~OptOutReturns(opted_out_users, u)
       THEN UNCHANGED <<opted_out_users, config, config_file>>
       ELSE LET set2 == opted_out_users \cup {hash_user_id(u)}
                r == save_opted_out_users(set2, write_ok)
            IN /\ opted_out_users' = set2
               /\ config' = [config EXCEPT !["privacy"] = r.dict]
               /\ config_file' = r.file

(* what opt_in_user returns *)
OptInReturns(set, user_id) == hash_user_id(user_id) \in set

(* PrivacyManager.opt_in_user, as called by the optin command *)
opt_in_user(u, write_ok) ==
    /\ lastop' = [op |-> "opt_in", arg |-> u, ret |-> BoolStr(OptInReturns(opted_out_users, u)),
                  before |-> opted_out_users]
    /\ IF ~OptInReturns(opted_out_users, u)
       THEN UNCHANGED <<opted_out_users, config, config_file>>
       ELSE LET set2 == opted_out_users \ {hash_user_id(u)}
                r == save_opted_out_users(set2, write_ok)
            IN /\ opted_out_users' = set2
               /\ config' = [config EXCEPT !["privacy"] = r.dict]
               /\ config_file' = r.file

(* a query of the registry *)
IsOptedOut(u) ==
    /\ UNCHANGED <<rateVars, asmVars, chunkVars, dlVars>>
    /\ lastop' = [op |-> "is_opted_out", arg |-> u,
                  ret |-> BoolStr(is_user_opted_out(opted_out_users, u)),
                  before |-> opted_out_users]
    /\ UNCHANGED <<opted_out_users, config, config_file>>

(* AdminCog.config_command(key, value); a key that is given is a string *)
config_command(key, value, write_ok) ==
    LET answer(text) == [op |-> "config",
                         arg |-> (IF key = None THEN "" ELSE key.s),
                         ret |-> text, before |-> opted_out_users]
    IN IF key # None /\ ~validate_config_key(key.s)
       THEN /\ lastop' = answer("cannot be modified")
            /\ UNCHANGED <<opted_out_users, config, config_file>>
       ELSE IF key = None
       THEN /\ lastop' = answer("current configuration")
            /\ UNCHANGED <<opted_out_users, config, config_file>>
       ELSE IF value = None
       THEN /\ lastop' = answer(IF ConfigGet(config["bot"], key.s) # None
                                THEN "value shown" ELSE "not found")
            /\ UNCHANGED <<opted_out_users, config, config_file>>
       ELSE IF ConfigGet(config["bot"], key.s) = None
       THEN /\ lastop' = answer("no setting")
            /\ UNCHANGED <<opted_out_users, config, config_file>>
       ELSE LET r == ConfigSet(config["bot"], config_file, key.s, value, write_ok)
            IN /\ lastop' = answer("updated")
               /\ config' = [config EXCEPT !["bot"] = r.dict]
               /\ config_file' = r.file
               /\ UNCHANGED opted_out_users

(* the privacy and admin commands; a write of the settings file may fail *)
OptOut(u) ==
    /\ \E w \in BOOLEAN : opt_out_user(u, w)
    /\ UNCHANGED <<rateVars, asmVars, chunkVars, dlVars>>

OptIn(u) ==
    /\ \E w \in BOOLEAN : opt_in_user(u, w)
    /\ UNCHANGED <<rateVars, asmVars, chunkVars, dlVars>>

ConfigCommand ==
    /\ \E k \in AdminKeys \cup {None}, v \in AdminValues \cup {None}, w \in BOOLEAN :
           config_command(k, v, w)
    /\ UNCHANGED <<rateVars, asmVars, chunkVars, dlVars>>

----------------------------------------------------------------------------
(* text_utils: texts are sequences of one-character strings *)

(* str.isspace, over the characters of the model *)
IsSpace(c) == c \in {" ", "\n"}

RECURSIVE StripEnd(_, _)
StripEnd(s, n) == IF n = 0 \/ ~IsSpace(s[n]) THEN n ELSE StripEnd(s, n - 1)

RECURSIVE StripStart(_, _)
StripStart(s, n) == IF n > Len(s) \/ ~IsSpace(s[n]) THEN n ELSE StripStart(s, n + 1)

(* mutant: trailing full stops are stripped along with the whitespace *)
rstrip_Punctuation(s) ==
    LET keep == {i \in DOMAIN s : ~IsSpace(s[i]) /\ s[i] # "."}
    IN IF keep = {} THEN <<>>
       ELSE SubSeq(s, 1, CHOOSE i \in keep : \A j \in keep : j <= i)

(* str.rstrip, str.lstrip, str.strip *)
rstrip(s) == SubSeq(s, 1, StripEnd(s, Len(s)))
lstrip(s) == SubSeq(s, StripStart(s, 1), Len(s))
strip(s) == lstrip(rstrip(s))

(* str.rfind: 0-based index of the last occurrence, -1 when there is none *)
rfind(s, pattern) ==
    LET hits == {i \in 0..(Len(s) - Len(pattern)) :
                    \A k \in 1..Len(pattern) : s[i + k] = pattern[k]}
    IN IF hits = {} THEN 0 - 1
       ELSE CHOOSE i \in hits : \A j \in hits : j <= i

(* find_best_split_point: split_patterns, best first *)
split_patterns ==
    << <<"\n", "\n">>, <<".", " ">>, <<".", "\n">>, <<"!", " ">>, <<"?", "\n">>,
       <<"?", " ">>, <<"!", "\n">>, <<"\n">>, <<";", " ">>, <<",", " ">>,
       <<" ", "-", " ">>, <<" ">> >>

RECURSIVE first_pattern_split(_, _)
first_pattern_split(search_text, k) ==
    IF k > Len(split_patterns) THEN 0 - 1
    ELSE LET last_occurrence == rfind(search_text, split_patterns[k])
         IN IF last_occurrence # 0 - 1
            THEN last_occurrence + Len(split_patterns[k])
            ELSE first_pattern_split(search_text, k + 1)

(* mutant: the position after the pattern is overshot by one *)
find_best_split_point_Overshoots(text, max_length) ==
    IF Len(text) <= max_length THEN Len(text)
    ELSE LET p == first_pattern_split(SubSeq(text, 1, max_length), 1)
         IN IF p = 0 - 1 THEN p ELSE p + 1

(* text_utils.find_best_split_point *)
find_best_split_point(text, max_length) ==
    IF Len(text) <= max_length THEN Len(text)
    ELSE first_pattern_split(SubSeq(text, 1, max_length), 1)

(* the while loop of smart_split_message and the statement after it *)
RECURSIVE split_loop(_, _, _)
split_loop(remaining_text, chunks, max_length) ==
    IF Len(remaining_text) > max_length
    THEN LET found == find_best_split_point(remaining_text, max_length)
             split_point == IF found = 0 - 1 THEN max_length ELSE found
             chunk == rstrip(SubSeq(remaining_text, 1, split_point))
         IN split_loop(lstrip(SubSeq(remaining_text, split_point + 1, Len(remaining_text))),
                       Append(chunks, chunk), max_length)
    ELSE IF strip(remaining_text) # <<>>
         THEN Append(chunks, strip(remaining_text))
         ELSE chunks

(* text_utils.smart_split_message *)
smart_split_message(text, max_length) ==
    IF Len(text) <= max_length THEN <<text>>
    ELSE split_loop(text, <<>>, max_length)

(* state before smart_split_message is called on its own *)
InitSplit(texts, lengths) ==
    /\ split_text \in texts
    /\ split_max \in lengths
    /\ split_chunks = <<>>

(* smart_split_message(split_text, split_max) is called *)
Split ==
    /\ split_chunks = <<>>
    /\ split_chunks' = smart_split_message(split_text, split_max)
    /\ UNCHANGED <<split_text, split_max>>
    /\ UNCHANGED <<rateVars, privVars, asmVars, dlVars>>

----------------------------------------------------------------------------
(* Messages of the channel and the segments of a content list *)

ChannelLen == 5

(* the member who types the summarize command *)
Invoker == "u1"

(* created_at of "no message yet" (prev_time = None) *)
NoTime == 0 - 1

(* count = None of the summarize command *)
NoCount == 0 - 1

(* MediaHandler.__init__ *)
supported_image_types == {"image/jpeg", "image/png", "image/gif", "image/webp"}
supported_video_types == {"video/mp4", "video/mpeg", "video/quicktime", "video/webm"}
supported_audio_types == {"audio/mpeg", "audio/wav", "audio/ogg", "audio/webm"}
max_file_size == 20 * 1024 * 1024
max_video_size == 100 * 1024 * 1024

(* MediaHandler._get_mime_type, from the lower-cased extension; "" is None *)
mime_map ==
    [jpg |-> "image/jpeg", jpeg |-> "image/jpeg", png |-> "image/png",
     gif |-> "image/gif", webp |-> "image/webp", mp4 |-> "video/mp4",
     mov |-> "video/quicktime", webm |-> "video/webm", mpeg |-> "video/mpeg",
     mpg |-> "video/mpeg", mp3 |-> "audio/mpeg", wav |-> "audio/wav",
     ogg |-> "audio/ogg", weba |-> "audio/webm", m4a |-> "audio/mp4"]

get_mime_type(ext) == IF ext \in DOMAIN mime_map THEN mime_map[ext] ELSE ""

(* MediaHandler._is_supported_media *)
is_supported_media(mime_type) ==
    \/ mime_type \in supported_image_types
    \/ mime_type \in supported_video_types
    \/ mime_type \in supported_audio_types

(* 'video' in attachment.content_type, over the content types of the model *)
NamesVideo(content_type) ==
    content_type \in supported_video_types \cup {"video/x-matroska"}

(* MediaHandler.download_attachment up to the HTTP request: "" when it
   returns None before any request, else the mime type it will return *)
download_precheck(attachment) ==
    LET max_size == IF attachment.content_type # "" /\ NamesVideo(attachment.content_type)
                    THEN max_video_size ELSE max_file_size
        mime_type == IF attachment.content_type # "" THEN attachment.content_type
                     ELSE get_mime_type(attachment.ext)
    IN IF attachment.size > max_size THEN ""
       ELSE IF mime_type = "" \/ ~is_supported_media(mime_type) THEN ""
       ELSE mime_type

(* mutant: the size is not looked at *)
download_start_AnySize ==
    /\ dpc = "idle"
    /\ LET mime_type == IF dattachment.content_type # "" THEN dattachment.content_type
                        ELSE get_mime_type(dattachment.ext)
       IN IF mime_type = "" \/ ~is_supported_media(mime_type)
          THEN dpc' = "returned" /\ dresult' = None
          ELSE dpc' = "requesting" /\ UNCHANGED dresult
    /\ UNCHANGED <<dattachment, dresponse>>

(* download_attachment is called: the two checks, then the GET is started *)
download_start ==
    /\ dpc = "idle"
    /\ IF download_precheck(dattachment) = ""
       THEN dpc' = "returned" /\ dresult' = None
       ELSE dpc' = "requesting" /\ UNCHANGED dresult
    /\ UNCHANGED <<dattachment, dresponse>>

(* the ways the request can end: status 200 and the body read, another
   status, a fault while connecting, a fault while reading the body *)
ResponseOutcomes == {"200", "404", "connect_fault", "read_fault"}

(* the request ends; every fault is caught by the except clause *)
download_responded(outcome) ==
    /\ dpc = "requesting"
    /\ dpc' = "returned"
    /\ dresponse' = outcome
    /\ dresult' = IF outcome = "200"
                  THEN [t |-> "data", mime_type |-> download_precheck(dattachment)]
                  ELSE None
    /\ UNCHANGED dattachment

(* the attachments download_attachment is called on: declared type (or
   none), extension, and sizes at and one byte over each cap *)
Attachments ==
    {[filename |-> "f", ext |-> e, content_type |-> c, size |-> z] :
        e \in {"png", "mp4", "m4a", "pdf"},
        c \in {"", "image/png", "video/mp4", "video/x-matroska", "application/pdf"},
        z \in {max_file_size, max_file_size + 1, max_video_size, max_video_size + 1}}

InitDownload(attachments) ==
    /\ dattachment \in attachments
    /\ dpc = "idle"
    /\ dresponse = "none"
    /\ dresult = None

DownloadStart ==
    /\ download_start
    /\ UNCHANGED <<rateVars, privVars, asmVars, chunkVars>>

DownloadResponded ==
    /\ \E outcome \in ResponseOutcomes : download_responded(outcome)
    /\ UNCHANGED <<rateVars, privVars, asmVars, chunkVars>>

(* attachments carried by the messages of the model *)
SmallPng == [filename |-> "a.png", ext |-> "png", content_type |-> "image/png", size |-> 1000]
LargePng == [SmallPng EXCEPT !.size = max_file_size + 1]
SmallJpg == [filename |-> "c.jpg", ext |-> "jpg", content_type |-> "image/jpeg", size |-> 2000]
SmallPdf == [filename |-> "b.pdf", ext |-> "pdf", content_type |-> "application/pdf", size |-> 1000]

(* One situation per channel: nothing special, a long pause before message
   4, message 5 replying to message 3 or to a message older than the
   channel's record, message 2 carrying attachments, message 4 reacted to *)
Features == {"plain", "gap", "gap_exact", "reply_inside", "reply_outside",
             "png", "large", "pdf_png", "png_jpg", "reaction"}

(* channels for the window selection: plain text only, or every second
   message an earlier command ("!...") *)
WindowFeatures == {"plain", "commands"}

MessageId(i) == 100 + i

MessageTime(i, feature) ==
    IF feature = "gap" /\ i >= 4 THEN 60 * i + 1801
    ELSE IF feature = "gap_exact" /\ i >= 4 THEN 60 * i + 1740
    ELSE 60 * i

ChannelMessage(i, author, feature) ==
    [id |-> MessageId(i),
     author |-> author,
     command |-> (feature = "commands" /\ i % 2 = 0),
     time |-> MessageTime(i, feature),
     reference |-> IF i = 5 /\ feature = "reply_inside" THEN MessageId(3)
                   ELSE IF i = 5 /\ feature = "reply_outside" THEN MessageId(0)
                   ELSE 0,
     attachments |-> IF i # 2 THEN <<>>
                     ELSE IF feature = "png" THEN <<SmallPng>>
                     ELSE IF feature = "large" THEN <<LargePng>>
                     ELSE IF feature = "pdf_png" THEN <<SmallPdf, SmallPng>>
                     ELSE IF feature = "png_jpg" THEN <<SmallPng, SmallJpg>>
                     ELSE <<>>,
     reactor |-> IF i = 4 /\ feature = "reaction" THEN "u2" ELSE "none"]

(* the message that invokes the summarize command, newest of the channel *)
CommandMessage(i, feature) ==
    [id |-> MessageId(i), author |-> Invoker, command |-> TRUE,
     time |-> MessageTime(i, feature),
     reference |-> 0, attachments |-> <<>>, reactor |-> "none"]

ChannelOf(n, authors, feature) ==
    [i \in 1..(n + 1) |-> IF i <= n THEN ChannelMessage(i, authors[i], feature)
                          ELSE CommandMessage(i, feature)]

Channels(lens, features) ==
    UNION {{ChannelOf(n, authors, f) : authors \in [1..n -> Users], f \in features} :
           n \in lens}

(* state before any summarize command *)
InitSummarize(channels) ==
    /\ channel \in channels
    /\ spc = "idle"
    /\ scount = NoCount
    /\ messages = <<>>
    /\ midx = 0
    /\ aidx = 0
    /\ content_parts = <<>>
    /\ prev_time = NoTime
    /\ downloads = {}
    /\ outbound = [issued |-> FALSE, content |-> <<>>, opted |-> {}]
    /\ sreply = "none"
    /\ sent = <<>>

Reverse(s) == [i \in 1..Len(s) |-> s[Len(s) + 1 - i]]

(* channel.history(limit=...): newest first, at most limit messages *)
history(limit) ==
    LET h == Reverse(channel)
    IN IF limit >= Len(h) THEN h ELSE SubSeq(h, 1, limit)

(* validation_utils.validate_message_count, on a Config() freshly loaded
   from the settings document *)
validate_message_count(count) ==
    LET max_limit == ConfigGet(config_file, "max_messages_limit")
    IN IF count < 5 THEN "too_few"
       ELSE IF max_limit.t # "int" THEN "raised"
       ELSE IF count > max_limit.n THEN "too_many"
       ELSE "valid"

(* mutant: the history is fetched with limit=count *)
CountWindow_LimitCount(count) ==
    LET h == history(count)
    IN IF h = <<>> THEN <<>> ELSE Reverse(Tail(h))

(* summarize, count given: history(limit=count+1) then messages[:0:-1] *)
CountWindow(count) ==
    LET h == history(count + 1)
    IN IF h = <<>> THEN <<>> ELSE Reverse(Tail(h))

(* mutant: the anchor message is not removed from the collection *)
get_messages_since_user_activity_KeepsAnchor(user_id, limit) ==
    LET h == history(limit)
        hits == {i \in 1..Len(h) : h[i].author = user_id /\ ~h[i].command}
        first == CHOOSE i \in hits : \A j \in hits : i <= j
        collected == IF hits # {} THEN SubSeq(h, 1, first) ELSE h
    IN Reverse(collected)

(* MessageProcessor.get_messages_since_user_activity *)
get_messages_since_user_activity(user_id, limit) ==
    LET h == history(limit)
        hits == {i \in 1..Len(h) : h[i].author = user_id /\ ~h[i].command}
        found_user == hits # {}
        first == CHOOSE i \in hits : \A j \in hits : i <= j
        collected == IF found_user THEN SubSeq(h, 1, first - 1) ELSE h
    IN Reverse(collected)

(* mutant: enumerate(messages) without the start value, positions from 0 *)
create_message_id_map_ZeroBased(msgs) ==
    [id \in {msgs[i].id : i \in 1..Len(msgs)} |->
        (CHOOSE i \in 1..Len(msgs) :
            /\ msgs[i].id = id
            /\ \A j \in 1..Len(msgs) : msgs[j].id = id => j <= i) - 1]

(* MessageProcessor._create_message_id_map: Discord id -> 1-based position *)
create_message_id_map(msgs) ==
    [id \in {msgs[i].id : i \in 1..Len(msgs)} |->
        CHOOSE i \in 1..Len(msgs) :
            /\ msgs[i].id = id
            /\ \A j \in 1..Len(msgs) : msgs[j].id = id => j <= i]

(* reply_info: 0 - 1 none, 0 "outside conversation", k "Replying to Message #k" *)
reply_info(msgs, message) ==
    IF message.reference = 0 THEN 0 - 1
    ELSE IF message.reference \in DOMAIN create_message_id_map(msgs)
         THEN create_message_id_map(msgs)[message.reference]
         ELSE 0

(* segments of the content list; src is the window index of the message
   the segment is made from *)
GapSegment(i) ==
    [kind |-> "gap", src |-> i, num |-> 0, name |-> "", reply |-> 0 - 1,
     file |-> "", mime |-> "", reactions |-> "none"]

MessageSegment(msgs, i, reactions) ==
    [kind |-> "message", src |-> i, num |-> create_message_id_map(msgs)[msgs[i].id],
     name |-> msgs[i].author, reply |-> reply_info(msgs, msgs[i]),
     file |-> "", mime |-> "", reactions |-> reactions]

AttachmentSegment(msgs, i, kind, attachment, mime_type) ==
    [kind |-> kind, src |-> i, num |-> create_message_id_map(msgs)[msgs[i].id],
     name |-> IF kind = "media" THEN "" ELSE msgs[i].author, reply |-> 0 - 1,
     file |-> IF kind = "media" THEN "" ELSE attachment.filename,
     mime |-> mime_type, reactions |-> "none"]

----------------------------------------------------------------------------
(* MessageProcessor.format_messages_for_ai_interlaced, run from one
   suspension point to the next.  It suspends while the reactions of a
   message are enumerated and while an attachment is downloaded; the rest
   of the loop runs without yielding.  st = [pc, midx, aidx, parts, prev, dl] *)
RECURSIVE format_run(_, _, _, _)
format_run(msgs, opted, threshold, st) ==
    IF st.midx > Len(msgs) THEN [st EXCEPT !.pc = "formatted"]
    ELSE LET message == msgs[st.midx] IN
         IF st.aidx = 0
         THEN IF is_user_opted_out(opted, message.author)
              THEN format_run(msgs, opted, threshold, [st EXCEPT !.midx = @ + 1])
              ELSE LET gap == /\ st.prev # NoTime
                              /\ message.time - st.prev > threshold * 60
                       parts1 == IF gap THEN Append(st.parts, GapSegment(st.midx))
                                 ELSE st.parts
                   IN IF message.reactor # "none"
                      THEN [st EXCEPT !.pc = "reacting", !.parts = parts1]
                      ELSE format_run(msgs, opted, threshold,
                               [st EXCEPT !.parts = Append(parts1,
                                              MessageSegment(msgs, st.midx, "none")),
                                          !.aidx = 1])
         ELSE IF st.aidx > Len(message.attachments)
              THEN format_run(msgs, opted, threshold,
                       [st EXCEPT !.midx = @ + 1, !.aidx = 0, !.prev = message.time])
              ELSE LET attachment == message.attachments[st.aidx] IN
                   IF download_precheck(attachment) # ""
                   THEN [st EXCEPT !.pc = "downloading", !.dl = @ \cup {st.midx}]
                   ELSE format_run(msgs, opted, threshold,
                            [st EXCEPT !.parts = Append(@,
                                           AttachmentSegment(msgs, st.midx, "unsupported",
                                                             attachment, "")),
                                       !.aidx = @ + 1])

(* str(n) of a natural number, one character per digit *)
DigitChars == <<"0", "1", "2", "3", "4", "5", "6", "7", "8", "9">>

RECURSIVE str(_)
str(n) ==
    IF n < 10 THEN <<DigitChars[n + 1]>>
    ELSE Append(str(n \div 10), DigitChars[(n % 10) + 1])

(* the texts summarize sends without a header, by their lengths: the two
   messages of validate_message_count, the two "No messages ..." replies and
   the reply of the except clause *)
notice(tag) ==
    [kind |-> "notice",
     len |-> CASE tag = "too_few" -> 33
               [] tag = "too_many" ->
                      25 + Len(str(ConfigGet(config_file, "max_messages_limit").n)) + 1
               [] tag = "no_messages_found" -> 31
               [] tag = "no_messages_available" -> 59
               [] tag = "raised" -> 47]

(* the strings generate_summary returns instead of a response text, by
   their lengths; any other result carries no such string *)
returned_notice(result) ==
    [len |-> CASE result = "too_long" -> 70
               [] result = "rate_limited" -> 62
               [] result = "no_content" -> 34
               [] OTHER -> 0,
     period |-> 0]

(* a text of t.len characters: letters, with a space at every t.period-th
   place when t.period > 0 *)
SummaryText(t) ==
    [i \in 1..t.len |-> IF t.period > 0 /\ i % t.period = 0 THEN " " ELSE "a"]

(* summarize: the parts of content_parts that are media parts *)
media_count(parts) ==
    Cardinality({i \in 1..Len(parts) : parts[i].kind = "media"})

(* summarize: f"**Summary of {len(messages)} messages{media_note}:**\n" *)
header(n, count) ==
    LET media_note ==
            IF count > 0
            THEN <<" ", "(", "i", "n", "c", "l", "u", "d", "i", "n", "g", " ">>
                 \o str(count)
                 \o <<" ", "m", "e", "d", "i", "a", " ", "f", "i", "l", "e", "s", ")">>
            ELSE <<>>
    IN <<"*", "*", "S", "u", "m", "m", "a", "r", "y", " ", "o", "f", " ">>
       \o str(n)
       \o <<" ", "m", "e", "s", "s", "a", "g", "e", "s">>
       \o media_note
       \o <<":", "*", "*", "\n">>

RECURSIVE send_chunks(_, _, _)
send_chunks(chunks, i, head) ==
    IF i > Len(chunks) THEN <<>>
    ELSE (IF i = 1
          THEN IF Len(head \o chunks[i]) > 2000
               THEN <<[kind |-> "header", len |-> Len(rstrip(head))],
                      [kind |-> "chunk", len |-> Len(chunks[i])]>>
               ELSE <<[kind |-> "header_chunk", len |-> Len(head \o chunks[i])]>>
          ELSE <<[kind |-> "chunk", len |-> Len(chunks[i])]>>)
         \o send_chunks(chunks, i + 1, head)

(* summarize, from the return of generate_summary on: the messages sent for
   the summary text t of a window of n messages with count media parts *)
deliver(t, n, count) ==
    IF t.len >= 2000
    THEN send_chunks(smart_split_message(SummaryText(t), 1900), 1, header(n, count))
    ELSE <<[kind |-> "whole", len |-> Len(header(n, count)) + t.len]>>

(* summarize after the assembler has returned: the "<= 1" test, then
   generate_summary up to its first suspension point *)
after_format(parts) ==
    IF Len(parts) <= 1
    THEN /\ spc' = "done"
         /\ sreply' = "no_messages_available"
         /\ sent' = <<notice("no_messages_available")>>
         /\ UNCHANGED rateVars
    ELSE /\ generate_summary_enter("i1", parts = <<>>)
         /\ spc' = "generating"
         /\ UNCHANGED <<sreply, sent>>

(* mutant: the threshold is taken as seconds, not minutes *)
format_continue_Seconds(msgs, st) ==
    LET r == format_run(msgs, opted_out_users,
                        ConfigGet(config["processor"], "time_gap_threshold_minutes").n \div 60,
                        st)
    IN /\ midx' = r.midx
       /\ aidx' = r.aidx
       /\ content_parts' = r.parts
       /\ prev_time' = r.prev
       /\ downloads' = r.dl
       /\ IF r.pc = "formatted"
          THEN after_format(r.parts)
          ELSE /\ spc' = r.pc
               /\ UNCHANGED <<sreply, sent>>
               /\ UNCHANGED rateVars

(* the assembler runs on from state st until it suspends or returns *)
format_continue(msgs, st) ==
    LET r == format_run(msgs, opted_out_users,
                        ConfigGet(config["processor"], "time_gap_threshold_minutes").n, st)
    IN /\ midx' = r.midx
       /\ aidx' = r.aidx
       /\ content_parts' = r.parts
       /\ prev_time' = r.prev
       /\ downloads' = r.dl
       /\ IF r.pc = "formatted"
          THEN after_format(r.parts)
          ELSE /\ spc' = r.pc
               /\ UNCHANGED <<sreply, sent>>
               /\ UNCHANGED rateVars

(* summarize is invoked: the count is validated, then the history is awaited *)
summarize_start(count) ==
    /\ spc = "idle"
    /\ IF count # NoCount /\ validate_message_count(count) # "valid"
       THEN /\ spc' = "done"
            /\ sreply' = validate_message_count(count)
            /\ sent' = <<notice(validate_message_count(count))>>
       ELSE /\ spc' = "fetching"
            /\ UNCHANGED <<sreply, sent>>
    /\ scount' = count
    /\ UNCHANGED <<channel, messages, midx, aidx, content_parts, prev_time,
                   downloads, outbound>>
    /\ UNCHANGED rateVars

(* the history arrives; an empty window is answered at once, otherwise the
   assembler starts and runs to its first suspension point *)
summarize_fetched ==
    /\ spc = "fetching"
    /\ LET limit == ConfigGet(config["bot"], "max_messages_default")
           window == IF scount # NoCount THEN CountWindow(scount)
                     ELSE get_messages_since_user_activity(Invoker, limit.n)
       IN /\ messages' = window
          /\ IF window = <<>>
             THEN /\ spc' = "done"
                  /\ sreply' = "no_messages_found"
                  /\ sent' = <<notice("no_messages_found")>>
                  /\ midx' = 0
                  /\ UNCHANGED <<aidx, content_parts, prev_time, downloads>>
                  /\ UNCHANGED rateVars
             ELSE format_continue(window, [pc |-> "running", midx |-> 1, aidx |-> 0,
                                           parts |-> <<>>, prev |-> NoTime, dl |-> {}])
    /\ UNCHANGED <<channel, scount, outbound>>

(* the reactions of message midx have been enumerated, or doing so raised
   and the count-only fallback is used; a reacting member who is opted out
   now is not named *)
format_reactions(raised) ==
    /\ spc = "reacting"
    /\ LET reactor == messages[midx].reactor
           info == IF raised \/ is_user_opted_out(opted_out_users, reactor)
                   THEN "count" ELSE reactor
       IN format_continue(messages,
              [pc |-> "running", midx |-> midx, aidx |-> 1,
               parts |-> Append(content_parts, MessageSegment(messages, midx, info)),
               prev |-> prev_time, dl |-> downloads])
    /\ UNCHANGED <<channel, scount, messages, outbound>>

(* the download of attachment aidx of message midx ends: with the bytes
   (and Part.from_bytes succeeds or raises) or without them *)
DownloadOutcomes == {"ok", "part_raised", "no_data"}

(* mutant: the media part is appended before its attribution text *)
format_downloaded_MediaFirst(outcome) ==
    /\ spc = "downloading"
    /\ LET attachment == messages[midx].attachments[aidx]
           mime_type == download_precheck(attachment)
           note(kind) == AttachmentSegment(messages, midx, kind, attachment, mime_type)
           parts == IF outcome = "ok"
                    THEN content_parts \o <<note("media"), note("media_text")>>
                    ELSE IF outcome = "part_raised"
                    THEN Append(content_parts, note("failed"))
                    ELSE Append(content_parts, note("unsupported"))
       IN format_continue(messages,
              [pc |-> "running", midx |-> midx, aidx |-> aidx + 1, parts |-> parts,
               prev |-> prev_time, dl |-> downloads])
    /\ UNCHANGED <<channel, scount, messages, outbound>>

format_downloaded(outcome) ==
    /\ spc = "downloading"
    /\ LET attachment == messages[midx].attachments[aidx]
           mime_type == download_precheck(attachment)
           note(kind) == AttachmentSegment(messages, midx, kind, attachment, mime_type)
           parts == IF outcome = "ok"
                    THEN content_parts \o <<note("media_text"), note("media")>>
                    ELSE IF outcome = "part_raised"
                    THEN Append(content_parts, note("failed"))
                    ELSE Append(content_parts, note("unsupported"))
       IN format_continue(messages,
              [pc |-> "running", midx |-> midx, aidx |-> aidx + 1, parts |-> parts,
               prev |-> prev_time, dl |-> downloads])
    /\ UNCHANGED <<channel, scount, messages, outbound>>

(* generate_summary inside summarize: the estimate arrives *)
summarize_estimated(estimated_tokens) ==
    /\ spc = "generating"
    /\ generate_summary_estimated("i1", estimated_tokens)
    /\ IF gpc'["i1"] = "calling"
       THEN /\ outbound' = [issued |-> TRUE, content |-> content_parts,
                            opted |-> opted_out_users]
            /\ UNCHANGED <<spc, sreply, sent>>
       ELSE /\ spc' = "done"
            /\ sreply' = greturn'.result
            /\ sent' = deliver(returned_notice(greturn'.result), Len(messages),
                               media_count(content_parts))
            /\ UNCHANGED outbound
    /\ UNCHANGED <<channel, scount, messages, midx, aidx, content_parts, prev_time,
                   downloads>>

(* generate_summary inside summarize: the outbound call returns or raises;
   either way its return value is sent as the summary *)
summarize_returned(response_tokens, response_text) ==
    /\ spc = "generating"
    /\ generate_summary_returned("i1", response_tokens)
    /\ spc' = "done"
    /\ sreply' = "ok"
    /\ sent' = deliver(response_text, Len(messages), media_count(content_parts))
    /\ UNCHANGED <<channel, scount, messages, midx, aidx, content_parts, prev_time,
                   downloads, outbound>>

summarize_raised(e) ==
    /\ spc = "generating"
    /\ generate_summary_raised("i1")
    /\ spc' = "done"
    /\ sreply' = "error"
    /\ sent' = deliver([len |-> 26 + e, period |-> 0], Len(messages),
                       media_count(content_parts))
    /\ UNCHANGED <<channel, scount, messages, midx, aidx, content_parts, prev_time,
                   downloads, outbound>>

CountChoices == {NoCount, 4, 5, 6, 201}

SumStart ==
    /\ \E count \in CountChoices : summarize_start(count)
    /\ UNCHANGED <<privVars, chunkVars, dlVars>>

SumFetched ==
    /\ summarize_fetched
    /\ UNCHANGED <<privVars, chunkVars, dlVars>>

FormatReactions ==
    /\ \E raised \in BOOLEAN : format_reactions(raised)
    /\ UNCHANGED <<privVars, chunkVars, dlVars>>

FormatDownloaded ==
    /\ \E outcome \in DownloadOutcomes : format_downloaded(outcome)
    /\ UNCHANGED <<privVars, chunkVars, dlVars>>

SumEstimated ==
    /\ \E e \in EstimateChoices : summarize_estimated(e)
    /\ UNCHANGED <<privVars, chunkVars, dlVars>>

(* the response texts of the outbound call, each a run of letters with a
   space at every period-th place: short ones, and ones about as long as
   one message may be and longer *)
ShortSummaries == {[len |-> 40, period |-> 8]}

LongSummaries ==
    {[len |-> n, period |-> k] : n \in {1972, 1973, 1974, 1999, 2000, 2500, 3900},
                                 k \in {0, 9}}

(* the lengths of str(e) of an exception of the outbound call *)
ExceptionLengths == {30}

SumReturned ==
    /\ \E r \in ResponseChoices, t \in ShortSummaries : summarize_returned(r, t)
    /\ UNCHANGED <<privVars, chunkVars, dlVars>>

SumReturnedLong ==
    /\ \E r \in ResponseChoices, t \in LongSummaries : summarize_returned(r, t)
    /\ UNCHANGED <<privVars, chunkVars, dlVars>>

SumRaised ==
    /\ \E e \in ExceptionLengths : summarize_raised(e)
    /\ UNCHANGED <<privVars, chunkVars, dlVars>>

----------------------------------------------------------------------------
(* generate_summary called one invocation after another *)
NextRateSeq ==
    \/ GenStart("i1")
    \/ GenEstimated("i1")
    \/ GenCallOk("i1")
    \/ GenCallFail("i1")
    \/ Tick

InitRateSeq == InitRateFrom(WarmStarts) /\ InitPrivFrom({{}}) /\ InitSummarize({<<>>}) /\ InitSplit({<<>>}, {1900}) /\ InitDownload({SmallPng})

SpecRateSeq == InitRateSeq /\ [][NextRateSeq]_vars

(* the RateLimiter under every sequence of checks, records and clock
   advances *)
NextLimiter ==
    \/ LimiterCheck
    \/ LimiterRecord
    \/ Tick

InitLimiter ==
    /\ InitRateFrom({0, WarmBatch})
    /\ InitPrivFrom({{}})
    /\ InitSummarize({<<>>})
    /\ InitSplit({<<>>}, {1900})
    /\ InitDownload({SmallPng})

SpecLimiter == InitLimiter /\ [][NextLimiter]_vars

(* generate_summary called by concurrent invocations *)
NextRate ==
    \/ \E p \in Procs : GenStart(p)
    \/ \E p \in Procs : GenEstimated(p)
    \/ \E p \in Procs : GenCallOk(p)
    \/ \E p \in Procs : GenCallFail(p)
    \/ TickConcurrent

InitRateConcurrent == InitRateFrom(WarmStarts) /\ InitPrivFrom({{}}) /\ InitSummarize({<<>>}) /\ InitSplit({<<>>}, {1900}) /\ InitDownload({SmallPng})

SpecRate == InitRateConcurrent /\ [][NextRate]_vars

(* the registry and the settings store under the privacy and admin commands *)
NextPrivacy ==
    \/ \E u \in Users : OptOut(u)
    \/ \E u \in Users : OptIn(u)
    \/ \E u \in Users : IsOptedOut(u)
    \/ ConfigCommand

InitPrivacy == InitRateFrom({0}) /\ InitPrivFrom(SUBSET Tokens) /\ InitSummarize({<<>>}) /\ InitSplit({<<>>}, {1900}) /\ InitDownload({SmallPng})

SpecPrivacy == InitPrivacy /\ [][NextPrivacy]_vars

(* one summarize command over a channel, the registry left alone *)
NextAssemble ==
    \/ SumStart
    \/ SumFetched
    \/ FormatReactions
    \/ FormatDownloaded
    \/ SumEstimated
    \/ SumReturned
    \/ SumRaised

InitAssemble ==
    /\ InitRateFrom({0, WarmBatch})
    /\ InitPrivFrom(SUBSET Tokens)
    /\ InitSummarize(Channels({0, ChannelLen}, Features))
    /\ InitSplit({<<>>}, {1900}) /\ InitDownload({SmallPng})

SpecAssemble == InitAssemble /\ [][NextAssemble]_vars

(* the window selection of summarize over channels of every length up to
   MaxWindowLen messages before the command, the fetch limit of the
   since-last-activity mode being the persisted max_messages_default *)
MaxWindowLen == 7

LimitChoices == {JInt(3), JInt(50)}

InitPrivLimit(limits) ==
    \E l \in limits :
        /\ config_file = [default_config EXCEPT !.max_messages_default = l]
        /\ config = [c \in ConfigInstances |-> config_file]
        /\ opted_out_users = {}
        /\ lastop = [op |-> "none", arg |-> "", ret |-> "", before |-> {}]

NextWindow ==
    \/ SumStart
    \/ SumFetched

InitWindow ==
    /\ InitRateFrom({0})
    /\ InitPrivLimit(LimitChoices)
    /\ InitSummarize(Channels(0..MaxWindowLen, WindowFeatures))
    /\ InitSplit({<<>>}, {1900}) /\ InitDownload({SmallPng})

SpecWindow == InitWindow /\ [][NextWindow]_vars

(* one summarize command with opt-out and opt-in commands arriving while
   it is suspended *)
NextRace ==
    \/ SumStart
    \/ SumFetched
    \/ FormatReactions
    \/ FormatDownloaded
    \/ SumEstimated
    \/ SumReturned
    \/ SumRaised
    \/ \E u \in Users : OptOut(u)
    \/ \E u \in Users : OptIn(u)

RaceAuthors == {<<"u2", "u1", "u2", "u1">>, <<"u1", "u2", "u1", "u2">>}

InitRace ==
    /\ InitRateFrom({0})
    /\ InitPrivFrom({{}})
    /\ InitSummarize({ChannelOf(Len(a), a, f) : a \in RaceAuthors,
                                               f \in {"png", "reaction"}})
    /\ InitSplit({<<>>}, {1900}) /\ InitDownload({SmallPng})

SpecRace == InitRace /\ [][NextRace]_vars

(* summarize with response texts about as long as one message may be, and
   longer, on a channel of ChannelLen messages with and without media *)
NextDeliver ==
    \/ SumStart
    \/ SumFetched
    \/ FormatDownloaded
    \/ SumEstimated
    \/ SumReturnedLong
    \/ SumRaised

InitDeliver ==
    /\ InitRateFrom({0})
    /\ InitPrivFrom({{}})
    /\ InitSummarize({ChannelOf(ChannelLen, [i \in 1..ChannelLen |-> "u2"], f) :
                          f \in {"plain", "png"}})
    /\ InitSplit({<<>>}, {1900}) /\ InitDownload({SmallPng})

SpecDeliver == InitDeliver /\ [][NextDeliver]_vars

(* the admin config command, then summarize: every config command is
   answered before the summarize command is given *)
ConfigBefore ==
    /\ spc = "idle"
    /\ \E k \in AdminKeys \cup {None}, v \in AdminValues \cup {None}, w \in BOOLEAN :
           config_command(k, v, w)
    /\ UNCHANGED <<rateVars, asmVars, chunkVars, dlVars>>

NextConfig ==
    \/ ConfigBefore
    \/ SumStart
    \/ SumFetched
    \/ SumEstimated
    \/ SumReturned
    \/ SumRaised

InitConfig ==
    /\ InitRateFrom({0})
    /\ InitPrivFrom({{}})
    /\ InitSummarize({ChannelOf(ChannelLen, [i \in 1..ChannelLen |-> "u2"], f) :
                          f \in {"plain", "gap", "gap_exact"}})
    /\ InitSplit({<<>>}, {1900})
    /\ InitDownload({SmallPng})

SpecConfig == InitConfig /\ [][NextConfig]_vars

(* download_attachment on its own, over Attachments *)
NextDownload ==
    \/ DownloadStart
    \/ DownloadResponded

InitDownloadAll ==
    /\ InitRateFrom({0})
    /\ InitPrivFrom({{}})
    /\ InitSummarize({<<>>})
    /\ InitSplit({<<>>}, {1900})
    /\ InitDownload(Attachments)

SpecDownload == InitDownloadAll /\ [][NextDownload]_vars

(* smart_split_message on every text of up to MaxTextLen characters and
   every max_length from 1 to MaxSplit *)
MaxTextLen == 6
MaxSplit == 3

Alphabet == {"a", ".", " ", "\n"}

Texts(n) == UNION {[1..k -> Alphabet] : k \in 0..n}

NextSplit == Split

InitSplitAll ==
    /\ InitRateFrom({0})
    /\ InitPrivFrom({{}})
    /\ InitSummarize({<<>>})
    /\ InitSplit(Texts(MaxTextLen), 1..MaxSplit)
    /\ InitDownload({SmallPng})

SpecSplit == InitSplitAll /\ [][NextSplit]_vars

----------------------------------------------------------------------------
(* What the history says about the sliding windows at the current time *)

InMinute == {i \in DOMAIN reqlog : reqlog[i].time >= now - 60}
InDay == {i \in DOMAIN reqlog : reqlog[i].time >= now - 86400}

RECURSIVE SumOver(_, _, _)
SumOver(log, idx, field) ==
    IF idx = {} THEN 0
    ELSE LET i == CHOOSE j \in idx : TRUE
         IN log[i][field] + SumOver(log, idx \ {i}, field)

TrueMinuteRequests == Cardinality(InMinute)
TrueMinuteTokens == SumOver(reqlog, InMinute, "tokens")
TrueMinuteEstimates == SumOver(reqlog, InMinute, "est")
TrueDayRequests == Cardinality(InDay)

(* The admission rule as the specification words it: only entries inside the
   windows count *)
WindowAdmits(rpm, tpm, rpd, t, estimated_tokens) ==
    /\ Cardinality({i \in DOMAIN rpm : rpm[i] >= t - 60}) < 14
    /\ SumOver(tpm, {i \in DOMAIN tpm : tpm[i].time >= t - 60}, "tokens")
           + estimated_tokens <= 240000
    /\ Cardinality({i \in DOMAIN rpd : rpd[i] >= t - 86400}) < 950

(* the step is a can_make_request call of invocation p *)
IsCheckStep(p) ==
    /\ gpc[p] = "estimating"
    /\ \/ gpc'[p] = "calling"
       \/ /\ gpc'[p] = "idle"
          /\ greturn' = [proc |-> p, result |-> "rate_limited"]

----------------------------------------------------------------------------
(* C1: with concurrent invocations on the shared limiter, records made by
   invocations whose check-then-record sequences interleaved never push the
   in-window request count above 15, the in-window token sum above 250,000
   or the per-day count above 1,000.  The token sum is taken over the input
   estimates alone, a lower bound of what was recorded, so that a failure is
   due to the interleaving and not to response tokens. *)
C1_NoJointExcess ==
    (\E i \in InMinute : reqlog[i].stale) =>
        /\ TrueMinuteRequests <= MinuteRequestCap
        /\ TrueMinuteEstimates <= MinuteTokenCap
        /\ TrueDayRequests <= DayRequestCap

(* C2: when every record is directly preceded by its own admitting check,
   after every record at most 15 requests are younger than 60 s and at most
   1,000 are younger than 86,400 s. *)
C2_RequestCaps ==
    /\ TrueMinuteRequests <= MinuteRequestCap
    /\ TrueDayRequests <= DayRequestCap

C2_Witness ==
    /\ greturn.result = "ok"
    /\ gpc["i1"] = "idle"
    /\ TrueMinuteRequests = 14
    /\ TrueDayRequests = 950

(* C3: for summarization calls made one after another, the tokens recorded
   within the last 60 s never sum to more than 250,000. *)
C3_TokenCap == TrueMinuteTokens <= MinuteTokenCap

(* C4: can_make_request(estimated_tokens) at time t answers true exactly
   when, counting only entries not older than t-60 (minute deques) or
   t-86,400 (day deque), requests < 14, tokens + estimate <= 240,000 and
   day requests < 950. *)
C4_AdmissionRule ==
    [][\A p \in Procs :
          IsCheckStep(p) =>
              (gcheck'.ok <=> WindowAdmits(requests_per_minute, tokens_per_minute,
                                           requests_per_day, now, gcheck'.est))]_vars

(* an estimate of 240,000 is admitted although a record of at least as many
   tokens, older than the window, is still in the history *)
C4_Witness ==
    /\ gpc["i1"] = "calling"
    /\ gest["i1"] = 240000
    /\ \E i \in DOMAIN reqlog : reqlog[i].tokens >= 240000

(* C8: the registry behaves as a set of identities.  After any call the
   answer and the token set are those of a set: opt_out answers true exactly
   for a new member and adds it, opt_in answers true exactly for a member and
   removes it, a query answers membership and changes nothing, no call for
   one identity changes membership of another; opt_out repeated at once
   answers false, and opt_in right after an effective opt_out gives back the
   set as it was before the opt_out. *)
C8_AfterCall ==
    LET tok == hash_user_id(lastop.arg)
    IN /\ lastop.op = "opt_out" =>
              /\ lastop.ret = BoolStr(tok \notin lastop.before)
              /\ opted_out_users = lastop.before \cup {tok}
       /\ lastop.op = "opt_in" =>
              /\ lastop.ret = BoolStr(tok \in lastop.before)
              /\ opted_out_users = lastop.before \ {tok}
       /\ lastop.op = "is_opted_out" =>
              /\ lastop.ret = BoolStr(tok \in opted_out_users)
              /\ opted_out_users = lastop.before
       /\ lastop.op \in {"opt_out", "opt_in", "is_opted_out"} =>
              \A v \in Users \ {lastop.arg} :
                  hash_user_id(v) \in opted_out_users <=> hash_user_id(v) \in lastop.before

C8_InARow ==
    /\ (lastop.op = "opt_out" /\ lastop'.op = "opt_out" /\ lastop'.arg = lastop.arg)
           => lastop'.ret = "False"
    /\ (lastop.op = "opt_out" /\ lastop.ret = "True"
        /\ lastop'.op = "opt_in" /\ lastop'.arg = lastop.arg)
           => (lastop'.ret = "True" /\ opted_out_users' = lastop.before)

C8_RegistryIsASet == [][C8_AfterCall' /\ C8_InARow]_vars

(* an effective opt-in of u1 while u2 stays opted out *)
C8_Witness ==
    /\ lastop.op = "opt_in"
    /\ lastop.arg = "u1"
    /\ lastop.ret = "True"
    /\ opted_out_users = {hash_user_id("u2")}

(* C9: after every opt_out_user or opt_in_user call, also when the write of
   the settings file fails, the opted_out_users list of the settings document
   equals the in-memory token set. *)
C9_DurableEqualsMemory ==
    lastop.op \in {"opt_out", "opt_in"} =>
        config_file.opted_out_users = opted_out_users

(* C10: no config command, get or set, changes the registry's in-memory set
   or the opted_out_users list of the persisted settings document. *)
C10_ConfigLeavesOptOuts ==
    [][lastop'.op = "config" =>
          /\ opted_out_users' = opted_out_users
          /\ config_file'.opted_out_users = config_file.opted_out_users]_vars

----------------------------------------------------------------------------
(* What a content list says about the window it was assembled from *)

Excluded(registry, user_id) == hash_user_id(user_id) \in registry

SourceAuthor(segment) == messages[segment.src].author

FormatReturned == spc \in {"generating", "done"} /\ messages # <<>>

PlainWindow ==
    /\ \A i \in DOMAIN messages :
          messages[i].attachments = <<>> /\ messages[i].reactor = "none"
    /\ \A i, j \in DOMAIN messages :
          i < j => messages[j].time - messages[i].time <= 30 * 60

ThirdOfFiveExcluded ==
    /\ Len(messages) = 5
    /\ \A i \in DOMAIN messages :
          Excluded(opted_out_users, messages[i].author) <=> i = 3

(* C5: with the opt-out set fixed during the assembly, no segment of the
   content list (message text, time-gap marker, attachment note or media)
   is made from a message whose author is opted out, and no attachment of
   such a message is downloaded; a plain window of 5 messages whose third
   author alone is opted out yields exactly 4 text segments *)
C5_NoExcludedSegments ==
    /\ \A i \in DOMAIN content_parts :
          ~Excluded(opted_out_users, SourceAuthor(content_parts[i]))
    /\ \A i \in downloads : ~Excluded(opted_out_users, messages[i].author)
    /\ (FormatReturned /\ PlainWindow /\ ThirdOfFiveExcluded) =>
          /\ Len(content_parts) = 4
          /\ \A i \in DOMAIN content_parts : content_parts[i].kind = "message"

C5_Witness ==
    /\ FormatReturned /\ PlainWindow /\ ThirdOfFiveExcluded
    /\ Len(content_parts) = 4

(* C6: a reply to a message of the window that was excluded because its
   author is opted out renders as "outside conversation", and a rendered
   "Replying to Message #k" always names a message whose own text segment
   is in the content list *)
C6_ReplyOutside ==
    \A i \in DOMAIN content_parts :
        LET s == content_parts[i]
            target == {j \in DOMAIN messages : messages[j].id = messages[s.src].reference}
        IN s.kind = "message" =>
              /\ (\E j \in target : Excluded(opted_out_users, messages[j].author))
                    => s.reply = 0
              /\ s.reply > 0 =>
                    \E k \in DOMAIN content_parts :
                        /\ content_parts[k].kind = "message"
                        /\ content_parts[k].num = s.reply

(* C7: an outbound summarization call issued after a member's opt-out has
   completed carries no segment made from a message of that member *)
C7_NoStaleSegments ==
    outbound.issued =>
        \A i \in DOMAIN outbound.content :
            ~Excluded(outbound.opted, SourceAuthor(outbound.content[i]))

----------------------------------------------------------------------------
(* What a step does to the three deques of the limiter *)

IsSuffixOf(s, q) ==
    /\ Len(s) <= Len(q)
    /\ \A i \in 1..Len(s) : s[i] = q[Len(q) - Len(s) + i]

(* q2 is q with exactly one entry appended, the oldest dropped if q was full *)
GainsOne(q2, q, entry) ==
    /\ Len(q2) >= 1
    /\ q2[Len(q2)] = entry
    /\ LET front == SubSeq(q2, 1, Len(q2) - 1)
       IN front = q \/ (q # <<>> /\ front = Tail(q))

(* invocation p returns the text of a successful outbound call *)
IsSuccessStep(p) ==
    /\ gpc[p] = "calling"
    /\ gpc'[p] = "idle"
    /\ greturn' = [proc |-> p, result |-> "ok"]

(* C11: the three deques gain an entry exactly on the step on which an
   outbound call has succeeded, and then exactly one each, stamped with the
   current time; on every other step (denied admission, too-long input, a
   call that raises, anything else) no deque gains an entry *)
C11_RecordOnlyOnSuccess ==
    [][IF \E p \in Procs : IsSuccessStep(p)
       THEN /\ GainsOne(requests_per_minute', requests_per_minute, now)
            /\ Len(tokens_per_minute') >= 1
            /\ LET last == tokens_per_minute'[Len(tokens_per_minute')]
               IN /\ last.time = now
                  /\ GainsOne(tokens_per_minute', tokens_per_minute, last)
            /\ GainsOne(requests_per_day', requests_per_day, now)
       ELSE /\ IsSuffixOf(requests_per_minute', requests_per_minute)
            /\ IsSuffixOf(tokens_per_minute', tokens_per_minute)
            /\ IsSuffixOf(requests_per_day', requests_per_day)]_vars

(* after one successful call, a second call was admitted and raised *)
C11_Witness ==
    /\ greturn.result = "error"
    /\ gcheck.ok
    /\ Len(reqlog) = 1
    /\ Len(requests_per_minute) = 1
    /\ Len(tokens_per_minute) = 1
    /\ Len(requests_per_day) = 1

----------------------------------------------------------------------------
(* the summarize invocation starts its outbound call on this step *)
IsIssueStep ==
    /\ spc = "generating"
    /\ gpc["i1"] = "estimating"
    /\ gpc'["i1"] = "calling"

Notices == {"too_long", "rate_limited"}

(* C12: one summarize invocation starts the outbound call at most once, and
   only on a step on which the estimate was found <= 1,000,000 and
   can_make_request answered true; when the estimate is over the ceiling or
   the admission is denied the invocation ends at once with the notice, the
   call not started, and nothing is tried again *)
C12_AtMostOneCall ==
    [][/\ IsIssueStep =>
             /\ ~outbound.issued
             /\ outbound'.issued
             /\ gcheck'.ok
             /\ gcheck'.est <= ContextLimit
             /\ gest'["i1"] = gcheck'.est
       /\ (spc = "generating" /\ gpc["i1"] = "estimating" /\ ~IsIssueStep) =>
             /\ spc' = "done"
             /\ gpc'["i1"] = "idle"
             /\ sreply' \in Notices
             /\ sreply' = "rate_limited" => (~gcheck'.ok /\ gcheck'.est <= ContextLimit)
             /\ ~outbound'.issued
       /\ ~IsIssueStep => outbound' = outbound
       /\ sreply \in Notices => (spc' = "done" /\ sreply' = sreply)]_vars

(* a denied invocation has ended with its notice, no call started *)
C12_Witness ==
    /\ spc = "done"
    /\ sreply = "rate_limited"
    /\ ~outbound.issued
    /\ content_parts # <<>>

----------------------------------------------------------------------------
(* the window has been selected (the history has arrived) *)
WindowSelected == spc \notin {"idle", "fetching"}

Smaller(a, b) == IF a <= b THEN a ELSE b

(* C13: for a valid count N, the command being the newest message of the
   channel, the window is the N most recent messages before the command,
   oldest first, or all of them when there are fewer than N; 6 messages in
   the channel and N = 5 give the oldest 5 *)
C13_CountWindow ==
    (WindowSelected /\ scount # NoCount /\ validate_message_count(scount) = "valid") =>
        LET n == Len(channel) - 1
            k == Smaller(scount, n)
        IN /\ messages = [i \in 1..k |-> channel[n - k + i]]
           /\ (Len(channel) = 6 /\ scount = 5) =>
                 messages = <<channel[1], channel[2], channel[3], channel[4], channel[5]>>

(* N = 5 over a channel of 8: messages 3..7 are selected *)
C13_Witness ==
    /\ WindowSelected
    /\ scount = 5
    /\ Len(channel) = 8
    /\ messages = <<channel[3], channel[4], channel[5], channel[6], channel[7]>>

----------------------------------------------------------------------------
(* the fetch limit of the since-last-activity mode *)
SinceLimit == ConfigGet(config["bot"], "max_messages_default").n

(* positions in the channel of the newest SinceLimit messages *)
Fetched == {i \in DOMAIN channel : i > Len(channel) - SinceLimit}

(* positions among them of the invoker's messages that are not commands *)
Anchors == {i \in Fetched : channel[i].author = Invoker /\ ~channel[i].command}

(* C14: without a count the window is, oldest first, the messages strictly
   newer than the newest non-command message of the invoker when that
   message is among the newest `limit` messages, and otherwise all of the
   newest min(limit, length) messages *)
C14_SinceWindow ==
    (WindowSelected /\ scount = NoCount) =>
        LET from == IF Anchors # {}
                    THEN (CHOOSE a \in Anchors : \A b \in Anchors : b <= a) + 1
                    ELSE (CHOOSE i \in Fetched : \A j \in Fetched : i <= j)
        IN messages = [i \in 1..(Len(channel) - from + 1) |-> channel[from + i - 1]]

(* an anchor is found behind a later command of the invoker, which stays in
   the window *)
C14_Witness ==
    /\ WindowSelected
    /\ scount = NoCount
    /\ \E a \in Anchors :
          /\ Len(messages) = Len(channel) - a
          /\ Len(messages) >= 3
          /\ \E j \in DOMAIN channel :
                a < j /\ j < Len(channel) /\ channel[j].author = Invoker

----------------------------------------------------------------------------
(* the attachment of message src that carries the file name *)
AttachmentNamed(src, file) ==
    {a \in DOMAIN messages[src].attachments : messages[src].attachments[a].filename = file}

(* C15: whatever the attachments do (downloaded, rejected before the
   request, failed), every media segment of the content list comes right
   after a text segment naming the message number, the author and the file
   name of that very attachment; so no media segment is first or follows
   another media segment *)
C15_MediaAttributed ==
    \A i \in DOMAIN content_parts :
        content_parts[i].kind = "media" =>
            /\ i > 1
            /\ LET m == content_parts[i]
                   t == content_parts[i - 1]
               IN /\ t.kind = "media_text"
                  /\ t.src = m.src
                  /\ t.num = create_message_id_map(messages)[messages[m.src].id]
                  /\ t.name = messages[m.src].author
                  /\ \E a \in AttachmentNamed(m.src, t.file) :
                        download_precheck(messages[m.src].attachments[a]) = m.mime

(* two attachments of one message both arrived as media *)
C15_Witness ==
    /\ FormatReturned
    /\ \E i, j \in DOMAIN content_parts :
          /\ i < j
          /\ content_parts[i].kind = "media"
          /\ content_parts[j].kind = "media"
          /\ content_parts[i].src = content_parts[j].src

----------------------------------------------------------------------------
(* the segments made from message k of the window, in output order *)
BlockOf(k) == SelectSeq(content_parts, LAMBDA s : s.src = k)

(* the block of an included message: an optional gap marker, one message
   text numbered k, then per attachment, in attachment order, either the
   attribution text followed by the media or a single note *)
WellFormedBlock(k) ==
    LET b == BlockOf(k)
        g == IF b # <<>> /\ b[1].kind = "gap" THEN 1 ELSE 0
        rest == SubSeq(b, g + 2, Len(b))
        notes == SelectSeq(rest, LAMBDA s : s.kind # "media")
    IN /\ Len(b) >= g + 1
       /\ b[g + 1].kind = "message"
       /\ b[g + 1].num = k
       /\ \A i \in DOMAIN rest : rest[i].kind \in {"media_text", "media", "failed", "unsupported"}
       /\ \A i \in DOMAIN rest :
             rest[i].kind = "media_text" => (i < Len(rest) /\ rest[i + 1].kind = "media")
       /\ \A i \in DOMAIN rest :
             rest[i].kind = "media" => (i > 1 /\ rest[i - 1].kind = "media_text")
       /\ Len(notes) = Len(messages[k].attachments)
       /\ \A a \in DOMAIN notes : notes[a].file = messages[k].attachments[a].filename

NoneExcluded == \A i \in DOMAIN messages : ~Excluded(opted_out_users, messages[i].author)

(* C16: the content list is, in the order of the window, one block per
   included message (optional gap marker, exactly one message text with the
   message's 1-based position, one block per attachment in attachment
   order); no segment of a later message comes before one of an earlier
   message; n plain messages with nobody opted out give n message texts
   numbered 1..n *)
C16_BlocksInOrder ==
    /\ \A i, j \in DOMAIN content_parts :
          i < j => content_parts[i].src <= content_parts[j].src
    /\ FormatReturned =>
          \A k \in DOMAIN messages :
              IF Excluded(opted_out_users, messages[k].author)
              THEN BlockOf(k) = <<>>
              ELSE WellFormedBlock(k)
    /\ (FormatReturned /\ PlainWindow /\ NoneExcluded) =>
          /\ Len(content_parts) = Len(messages)
          /\ \A i \in DOMAIN content_parts :
                /\ content_parts[i].kind = "message"
                /\ content_parts[i].num = i
                /\ content_parts[i].src = i

(* five plain messages, nobody opted out, five numbered texts *)
C16_Witness ==
    /\ FormatReturned /\ PlainWindow /\ NoneExcluded
    /\ Len(messages) = 5
    /\ Len(content_parts) = 5
    /\ content_parts[5].num = 5

----------------------------------------------------------------------------
(* smart_split_message has returned *)
SplitReturned == split_chunks # <<>>

(* C17: every chunk smart_split_message returns is at most max_length long *)
C17_ChunksFit ==
    \A i \in DOMAIN split_chunks : Len(split_chunks[i]) <= split_max

(* a text without any split pattern is cut into full chunks and a rest *)
C17_Witness ==
    /\ SplitReturned
    /\ Len(split_chunks) = 3
    /\ Len(split_chunks[1]) = split_max
    /\ Len(split_chunks[2]) = split_max
    /\ split_max > 1

IsPrefix(p, t) == Len(p) <= Len(t) /\ \A i \in DOMAIN p : p[i] = t[i]

DropFirst(t, n) == SubSeq(t, n + 1, Len(t))

(* every way of joining the chunks in order with nothing or a single space
   between neighbours *)
RECURSIVE SpaceJoins(_)
SpaceJoins(cs) ==
    IF Len(cs) = 1 THEN {cs[1]}
    ELSE {cs[1] \o sep \o rest : sep \in {<<>>, <<" ">>}, rest \in SpaceJoins(Tail(cs))}

(* the text is the chunks in order with whitespace only between them and
   after the last one *)
RECURSIVE Reassembles(_, _)
Reassembles(t, cs) ==
    IF cs = <<>> THEN \A i \in DOMAIN t : IsSpace(t[i])
    ELSE /\ IsPrefix(cs[1], t)
         /\ Reassembles(lstrip(DropFirst(t, Len(cs[1]))), Tail(cs))

(* C18 as stated: the chunks of smart_split_message, joined in order with a
   single space where whitespace was trimmed at a split point (and nothing
   elsewhere), reproduce the trimmed text *)
C18_SingleSpaceRejoin ==
    SplitReturned =>
        \E joined \in SpaceJoins(split_chunks) : strip(joined) = strip(split_text)

(* C18 amended: the chunks keep every non-whitespace character in order;
   joined in order with the whitespace run trimmed at each split point,
   which need not be a single space, they reproduce the text up to its
   trailing whitespace *)
C18_NothingButWhitespaceLost ==
    SplitReturned => Reassembles(split_text, split_chunks)

(* more than one whitespace character was trimmed at a split point *)
C18_Witness ==
    /\ SplitReturned
    /\ Len(split_chunks) = 2
    /\ Len(split_chunks[1]) + Len(split_chunks[2]) + 1 < Len(rstrip(split_text))
    /\ split_chunks[1] # <<>>

(* C19: every message summarize sends is at most 2000 characters long *)
C19_MessagesFit ==
    \A i \in 1..Len(sent) : sent[i].len <= 2000

(* the time of the latest record_request still held by a window *)
LastTime(q) == q[Len(q)]

WindowsEmpty ==
    /\ requests_per_minute' = <<>>
    /\ tokens_per_minute' = <<>>
    /\ requests_per_day' = <<>>

MinuteWindowsEmpty ==
    /\ requests_per_minute' = <<>>
    /\ tokens_per_minute' = <<>>

(* C20 as stated: an admission check made 86,400 seconds after the last
   record, or later, leaves the three windows empty, and one made 60
   seconds after it, or later, leaves the two per-minute windows empty *)
C20_EmptyAtHorizon ==
    [][IsCheckStep("i1") =>
          /\ (requests_per_day # <<>> /\ now - LastTime(requests_per_day) >= DayHorizon)
                 => WindowsEmpty
          /\ (requests_per_minute # <<>>
                 /\ now - LastTime(requests_per_minute) >= MinuteHorizon)
                 => MinuteWindowsEmpty]_vars

(* C20: an admission check made more than 86,400 seconds after the last
   record leaves the three rate windows empty, and one made more than 60
   seconds after the last record leaves the two per-minute windows empty;
   entries exactly one horizon old are still held *)
C20_EmptyPastHorizon ==
    [][IsCheckStep("i1") =>
          /\ (requests_per_day # <<>> /\ now - LastTime(requests_per_day) > DayHorizon)
                 => WindowsEmpty
          /\ (requests_per_minute # <<>>
                 /\ now - LastTime(requests_per_minute) > MinuteHorizon)
                 => MinuteWindowsEmpty]_vars

(* a limiter that held DayRequestLimit - 1 records has been checked one
   second past the day horizon of the last of them, and holds nothing *)
C20_Witness ==
    /\ now = WarmTime(DayRequestLimit - 1) + DayHorizon + 1
    /\ gcheck.ok
    /\ requests_per_minute = <<>>
    /\ tokens_per_minute = <<>>
    /\ requests_per_day = <<>>

----------------------------------------------------------------------------
(* the cap and the resolved type as the claim words them *)
DeclaredVideo == dattachment.content_type \in {"video/mp4", "video/x-matroska"}

SizeCap == IF DeclaredVideo THEN 100 * 1024 * 1024 ELSE 20 * 1024 * 1024

ResolvedType ==
    IF dattachment.content_type # "" THEN dattachment.content_type
    ELSE IF dattachment.ext = "png" THEN "image/png"
    ELSE IF dattachment.ext = "mp4" THEN "video/mp4"
    ELSE IF dattachment.ext = "m4a" THEN "audio/mp4"
    ELSE ""

SupportedTypes ==
    {"image/jpeg", "image/png", "image/gif", "image/webp",
     "video/mp4", "video/mpeg", "video/quicktime", "video/webm",
     "audio/mpeg", "audio/wav", "audio/ogg", "audio/webm"}

ChecksPass == dattachment.size <= SizeCap /\ ResolvedType \in SupportedTypes

Requested == dpc = "requesting" \/ dresponse # "none"

(* C21: download_attachment starts the byte download only when the size is
   within the cap (100 MB for a declared video type, else 20 MB) and the
   resolved MIME type is supported; otherwise it returns null without a
   request; a non-200 response or a transport fault gives null as well,
   and only a 200 response gives the bytes with the resolved type *)
C21_DownloadGate ==
    /\ Requested => ChecksPass
    /\ (dpc = "returned" /\ ~ChecksPass) => (dresult = None /\ ~Requested)
    /\ (dpc = "returned" /\ dresponse \in {"404", "connect_fault", "read_fault"})
           => dresult = None
    /\ (dpc = "returned" /\ dresponse = "200")
           => dresult = [t |-> "data", mime_type |-> ResolvedType]

(* an oversized attachment of an undeclared type was turned away unrequested *)
C21_Witness ==
    /\ dpc = "returned"
    /\ dattachment.content_type = ""
    /\ dattachment.ext = "mp4"
    /\ dattachment.size = 20 * 1024 * 1024 + 1
    /\ dresult = None
    /\ ~Requested

----------------------------------------------------------------------------
(* window positions of the messages whose author is not opted out *)
Included == {i \in DOMAIN messages : ~Excluded(opted_out_users, messages[i].author)}

(* the included message before message i, 0 when there is none *)
PreviousIncluded(i) ==
    LET before == {j \in Included : j < i}
    IN IF before = {} THEN 0 ELSE CHOOSE j \in before : \A k \in before : k <= j

GapThreshold == ConfigGet(config["processor"], "time_gap_threshold_minutes").n

(* C22: a time-gap marker stands immediately before a message's text
   segment exactly when an earlier included message exists and the message
   is more than time_gap_threshold_minutes * 60 seconds later than the
   previous included one; a marker is always followed by such a message
   text, and none precedes the first included message *)
C22_GapMarkers ==
    FormatReturned =>
        /\ \A k \in DOMAIN content_parts :
              content_parts[k].kind = "message" =>
                 LET i == content_parts[k].src
                     p == PreviousIncluded(i)
                 IN (k > 1 /\ content_parts[k - 1].kind = "gap")
                       <=> (p # 0 /\ messages[i].time - messages[p].time
                                        > GapThreshold * 60)
        /\ \A k \in DOMAIN content_parts :
              content_parts[k].kind = "gap" =>
                 /\ k < Len(content_parts)
                 /\ content_parts[k + 1].kind = "message"
                 /\ content_parts[k + 1].src = content_parts[k].src

(* messages 3 and 4 are exactly the threshold apart and get no marker
   between them, yet with message 4 opted out the marker stands before
   message 5, which is later than message 3 by more than the threshold *)
C22_Witness ==
    /\ FormatReturned
    /\ Len(messages) = 5
    /\ messages[4].time - messages[3].time = GapThreshold * 60
    /\ 3 \in Included /\ 4 \notin Included /\ 5 \in Included
    /\ \E k \in DOMAIN content_parts :
          content_parts[k].kind = "gap" /\ content_parts[k].src = 5

(* messages exactly the threshold apart, both included, no marker at all *)
C22_WitnessExact ==
    /\ FormatReturned
    /\ Len(messages) = 5
    /\ messages[4].time - messages[3].time = GapThreshold * 60
    /\ Included = DOMAIN messages
    /\ \A k \in DOMAIN content_parts : content_parts[k].kind # "gap"

----------------------------------------------------------------------------
(* C23: the note worded "Unsupported attachment" is given only to an
   attachment turned away before any request (unsupported or oversized); an
   attachment whose download was started and failed is worded otherwise *)
C23_DistinctWording ==
    FormatReturned =>
        \A k \in DOMAIN content_parts :
            content_parts[k].kind = "unsupported" =>
                \A a \in AttachmentNamed(content_parts[k].src, content_parts[k].file) :
                    download_precheck(messages[content_parts[k].src].attachments[a]) = ""

----------------------------------------------------------------------------
(* C24: an opt_out_user or opt_in_user call leaves every key of the
   persisted settings document other than opted_out_users as it was, that
   is, at the value the config command wrote last *)
C24_OptOutFrame ==
    [][lastop'.op \in {"opt_out", "opt_in"} =>
          \A k \in ConfigKeys \ {"opted_out_users"} :
              config_file'[k] = config_file[k]]_vars

----------------------------------------------------------------------------
(* the threshold the config command set last, held by the bot's Config *)
LatestThreshold == ConfigGet(config["bot"], "time_gap_threshold_minutes")

(* C25: a summarize invocation given after the config command has set
   time_gap_threshold_minutes reads the value set last: the gap markers of
   the content it assembles are those of that threshold *)
C25_LatestConfigRead ==
    [][(spc = "fetching" /\ spc' \in {"generating", "done"} /\ messages' # <<>>
           /\ LatestThreshold.t = "int")
         => \A k \in DOMAIN content_parts' :
               content_parts'[k].kind = "message" =>
                  LET i == content_parts'[k].src
                  IN (k > 1 /\ content_parts'[k - 1].kind = "gap")
                        <=> (i > 1 /\ messages'[i].time - messages'[i - 1].time
                                         > LatestThreshold.n * 60)]_vars

----------------------------------------------------------------------------
(* C26: for a text longer than max_length, every chunk that
   smart_split_message returns is non-empty *)
C26_NoEmptyChunk ==
    (SplitReturned /\ Len(split_text) > split_max) =>
        \A i \in DOMAIN split_chunks : split_chunks[i] # <<>>

----------------------------------------------------------------------------
(* C27: summarize answers "No messages available to summarize after
   privacy filtering" only when every message of the window was excluded;
   when one message or more is included the content goes to
   generate_summary *)
C27_NoticeOnlyWhenAllExcluded ==
    (spc = "done" /\ sreply = "no_messages_available") => Included = {}

----------------------------------------------------------------------------
(* C28: in either mode the window handed on by summarize does not contain
   the command message that triggered it, the newest message of the channel *)
C28_CommandNotInWindow ==
    WindowSelected =>
        \A i \in DOMAIN messages : messages[i].id # channel[Len(channel)].id

----------------------------------------------------------------------------
(* the entries of a window that are not older than its horizon *)
YoungTimes(q, horizon) == SelectSeq(q, LAMBDA t : t >= now - horizon)

YoungTokens(q) == SelectSeq(q, LAMBDA e : e.time >= now - MinuteHorizon)

(* C29: whatever the sequence of checks and records, a window holds every
   record that is not older than its horizon: the counts the next check
   sees are not lower than the number of requests recorded within the
   horizon *)
C29_OnlyAgePruning ==
    /\ Len(YoungTimes(requests_per_minute, MinuteHorizon)) >= TrueMinuteRequests
    /\ Len(YoungTokens(tokens_per_minute)) >= TrueMinuteRequests
    /\ Len(YoungTimes(requests_per_day, DayHorizon)) >= TrueDayRequests

(* C30: a check whose estimate is at most 1,000,000 and which finds every
   window empty, as after a long enough time without records, admits *)
C30_DenialIsTransient ==
    (/\ gcheck.est > 0
     /\ gcheck.est <= ContextLimit
     /\ requests_per_minute = <<>>
     /\ tokens_per_minute = <<>>
     /\ requests_per_day = <<>>) => gcheck.ok

=============================================================================
